---- MODULE Spec2Model ----
(***************************************************************************)
(* Elevator dispatch core of davidkyalo/elevator-app.                      *)
(*                                                                         *)
(* One control loop (app.controller.Controller._run) per elevator; every   *)
(* iteration runs the handler of the elevator's status on the in-memory    *)
(* ElevatorState and then commits the session.  The loops share the ride   *)
(* and trip tables of one PostgreSQL store (READ COMMITTED, row locks      *)
(* taken by SELECT ... FOR UPDATE and held until the commit).              *)
(***************************************************************************)
EXTENDS Integers, Sequences, FiniteSets, TLC

(* ------------------------------ bounds -------------------------------- *)
NumElevators == 2
FloorCount == 3
MaxRides == 2
MaxElapsed == 1
E2EFloors == 5
MaxArg == 5
MaxMask == 5
MaxFloors == 4
MaxClock == 26

(* elevator configuration used by the model (Elevator columns) *)
speed_per_floor == 1
docking_speed == 1
time_on_dock == 0

(* ------------------------ enumerations -------------------------------- *)
(* app.models.Direction (IntEnum) *)
NONE == 0
UP == 1
DOWN == -1
Direction == {NONE, UP, DOWN}

(* app.models.Status *)
IDLE == "idle"
MOVING == "moving"
DOCKING == "docking"
DOCKED == "docked"
UNDOCKING == "undocking"
UNDOCKED == "undocked"
DISABLED == "disabled"

(* app.models.DoorState *)
CLOSED == "closed"
OPENING == "opening"
OPEN == "open"
CLOSING == "closing"

(* app.models.RideStatus *)
QUEUED == "queued"
ENROUTE == "enroute"
ARRIVED == "arrived"

(* app.models.TripStatus *)
DRAFT == "draft"
STOPPED == "stopped"

(* Python None for a nullable column, and the id of a Trip object that is  *)
(* attached to the session but not flushed yet.                            *)
NULL == 0
NEW_TRIP == -1

Elevators == 1..NumElevators

VARIABLES
    building,   \* the Building row: floor_count and doors mask
    fleet,      \* ids of the Elevator rows the coordinator starts a loop for
    state,      \* Controller.state: the in-memory ElevatorState of each loop
    db_state,   \* the committed elevator_state rows
    trips,      \* the committed trip table, id = index
    rides,      \* the committed ride table, id = index = creation order
    pending,    \* per loop: the unflushed changes of the open transaction
    pc,         \* per loop: position in Controller._run
    created,    \* outcome of the last RideManager.create_ride call
    doors,      \* the doors column of the Elevator rows (one configuration)
    clock,      \* the value monotonic_ns() returns
    timer       \* per loop: Controller._last_tick and what _tick returned

vars == <<building, fleet, state, db_state, trips, rides, pending, pc, created,
          doors, clock, timer>>

(* the variables no step of the control loops or of the API writes: the    *)
(* Elevator configuration, and the clock where it is not modelled          *)
config == <<doors, clock, timer>>

Max(a, b) == IF a >= b THEN a ELSE b
Min(a, b) == IF a <= b THEN a ELSE b

(* ----------------------------- models --------------------------------- *)
(* Direction.resolve *)
resolve(pickup, dropoff) ==
    LET diff == dropoff - pickup
    IN  IF diff < 0 THEN DOWN ELSE IF diff # 0 THEN UP ELSE NONE

(* Building.validate_doors for a building created without a mask *)
validate_doors(floors) == [i \in 1..floors |-> 1]

(* Building.validate_doors: the mask cut, or padded with 1, to floor_count *)
Building_validate_doors(floors, value) ==
    LET diff == floors - Len(value)
    IN  IF 0 > diff THEN SubSeq(value, 1, floors)
        ELSE value \o [i \in 1..diff |-> 1]

(* Elevator.validate_doors for an elevator of building b: an empty value   *)
(* takes the building's mask; a longer one is cut to floor_count; zip      *)
(* stops at the shorter of the two; `a and b` is a when a is 0, else b     *)
Elevator_validate_doors(b, value) ==
    IF value = <<>> THEN b.doors
    ELSE LET diff == b.floor_count - Len(value)
             cut == IF 0 > diff THEN SubSeq(value, 1, b.floor_count) ELSE value
         IN  [i \in 1..Min(Len(b.doors), Len(cut)) |->
                IF b.doors[i] = 0 THEN 0 ELSE cut[i]]

(* Controller.__init__: _last_tick = 0; nothing returned by _tick yet *)
Timer == [last_tick |-> 0, last |-> 0, now |-> 0, elapsed |-> 0, ticks |-> 0]

(* ElevatorState column defaults *)
ElevatorState ==
    [status |-> IDLE, door_state |-> CLOSED, direction |-> NONE, floor |-> 0,
     floor_time |-> 0, door_time |-> 0, docked_time |-> 0, trip_id |-> NULL]

(* Ride(...) as inserted: status QUEUED, trip unset *)
Ride(pickup, dropoff, direction) ==
    [pickup |-> pickup, dropoff |-> dropoff, direction |-> direction,
     status |-> QUEUED, trip_id |-> NULL]

(* Trip(elevator=...) as inserted: status DRAFT *)
Trip(elevator) == [elevator_id |-> elevator, status |-> DRAFT]

NoPending == [claimed |-> {}, arrived |-> {}, trip_status |-> ""]

RideIds == 1..Len(rides)

(* elevator.doors[floor]: Python list indexing, IndexError past the end *)
DoorIndexError(floor) == floor >= Len(doors)

(* mutant: every door counts as accessible *)
DoorAt_Open(floor) == 1

(* elevator.doors[floor], a negative index counting from the end *)
DoorAt(floor) ==
    IF floor < 0 THEN doors[Len(doors) + floor + 1]
    ELSE doors[floor + 1]

(* ------------------------ matching queries ---------------------------- *)
(* mutant: the pickup query takes no row lock *)
LockedByOthers_NoLock(e) == {}

(* rows locked FOR UPDATE by the open transactions of the other loops *)
LockedByOthers(e) ==
    UNION {pending[o].claimed \cup pending[o].arrived : o \in Elevators \ {e}}

(* select count() ... trip_id == state.trip_id, status in (ENROUTE, QUEUED) *)
CurrentCount(s, flushed) ==
    Cardinality({r \in RideIds :
        /\ rides[r].trip_id = s.trip_id
        /\ rides[r].status \in {ENROUTE, QUEUED}
        /\ r \notin flushed})

(* mutant: the pickup query matches claimed and delivered rides as well *)
PickupMatch_AnyRide(s, r, filter) ==
    /\ rides[r].pickup = s.floor
    /\ (filter => rides[r].direction = s.direction)

(* the pickup predicate shared by _should_dock_to_floor and _do_pickups *)
PickupMatch(s, r, filter) ==
    /\ rides[r].trip_id = NULL
    /\ rides[r].status = QUEUED
    /\ rides[r].pickup = s.floor
    /\ (filter => rides[r].direction = s.direction)

(* mutant: the dropoff query does not compare the floor *)
DropoffMatch_AnyFloor(s, r) ==
    /\ rides[r].trip_id = s.trip_id
    /\ rides[r].status = ENROUTE

(* the dropoff predicate shared by _should_dock_to_floor and _do_dropoffs *)
DropoffMatch(s, r) ==
    /\ rides[r].trip_id = s.trip_id
    /\ rides[r].dropoff = s.floor
    /\ rides[r].status = ENROUTE

(* Controller._should_dock_to_floor, for an in-range floor *)
should_dock_to_floor(s) ==
    IF DoorAt(s.floor) # 0
    THEN LET filter == CurrentCount(s, {}) # 0
         IN  \E r \in RideIds : PickupMatch(s, r, filter) \/ DropoffMatch(s, r)
    ELSE FALSE

(* ------------------------- state handlers ----------------------------- *)
(* the floor advance of Controller._run_moving (the clamp branches) *)
advance(s) ==
    IF s.floor = Len(doors)
    THEN [s EXCEPT !.floor = @ - 1, !.direction = DOWN]
    ELSE IF s.floor = 0
    THEN [s EXCEPT !.floor = @ + 1, !.direction = UP]
    ELSE [s EXCEPT !.floor = @ + s.direction]

(* does this MOVING tick take the advance branch (remainder <= 0) *)
moving_advances(s, elapsed) ==
    Max(speed_per_floor - s.floor_time + elapsed, 0) <= 0

(* Controller._run_moving raises IndexError from elevator.doors[floor] *)
moving_raises(s, elapsed) ==
    /\ moving_advances(s, elapsed)
    /\ DoorIndexError(advance(s).floor)

(* Controller._run_moving: the in-memory state when the handler returns,   *)
(* or when it raises                                                       *)
run_moving(s, elapsed) ==
    IF ~moving_advances(s, elapsed)
    THEN [s EXCEPT !.floor_time = @ + elapsed]
    ELSE LET a == [advance(s) EXCEPT !.floor_time = 0]
         IN  IF DoorIndexError(a.floor) THEN a
             ELSE IF should_dock_to_floor(a)
             THEN [a EXCEPT !.status = DOCKING]
             ELSE a

(* mutant: a DOCKING tick with the door CLOSED opens it at once *)
run_docking_OpensAtOnce(s, elapsed) ==
    IF s.door_state \in {OPENING, CLOSED}
    THEN [s EXCEPT !.status = DOCKED, !.door_state = OPEN, !.door_time = 0]
    ELSE s

(* Controller._run_docking *)
run_docking(s, elapsed) ==
    LET remainder == Max(docking_speed - s.door_time + elapsed, 0)
    IN  IF s.door_state = OPENING /\ remainder > 0
        THEN [s EXCEPT !.door_time = @ + elapsed]
        ELSE IF s.door_state = OPENING
        THEN [s EXCEPT !.status = DOCKED, !.door_state = OPEN, !.door_time = 0]
        ELSE IF s.door_state = CLOSED
        THEN [s EXCEPT !.door_state = OPENING]
        ELSE s

(* mutant: the tick that ends UNDOCKING leaves the door CLOSING *)
run_undocking_LeavesClosing(s, elapsed) ==
    LET remainder == Max(docking_speed - s.door_time + elapsed, 0)
    IN  IF s.door_state = CLOSING /\ remainder > 0
        THEN [s EXCEPT !.door_time = @ + elapsed]
        ELSE IF s.door_state = CLOSING
        THEN [s EXCEPT !.status = UNDOCKED, !.door_time = 0]
        ELSE IF s.door_state = OPEN
        THEN [s EXCEPT !.door_state = CLOSING]
        ELSE s

(* Controller._run_undocking *)
run_undocking(s, elapsed) ==
    LET remainder == Max(docking_speed - s.door_time + elapsed, 0)
    IN  IF s.door_state = CLOSING /\ remainder > 0
        THEN [s EXCEPT !.door_time = @ + elapsed]
        ELSE IF s.door_state = CLOSING
        THEN [s EXCEPT !.status = UNDOCKED, !.door_state = CLOSED, !.door_time = 0]
        ELSE IF s.door_state = OPEN
        THEN [s EXCEPT !.door_state = CLOSING]
        ELSE s

(* Controller._run_undocked *)
run_undocked(s) ==
    LET dirs == {rides[r].direction : r \in
                    {x \in RideIds : /\ rides[x].trip_id = s.trip_id
                                     /\ rides[x].status = ENROUTE}}
    IN  IF dirs = {} THEN [s EXCEPT !.status = IDLE]
        ELSE IF s.direction \notin dirs
        THEN [s EXCEPT !.status = MOVING, !.direction = s.direction * (-1)]
        ELSE [s EXCEPT !.status = MOVING]

(* the query of Controller._run_idle: unclaimed QUEUED rides *)
Unclaimed == {r \in RideIds : rides[r].trip_id = NULL /\ rides[r].status = QUEUED}

(* .order_by(Ride.created_at) ... .first() *)
Oldest(q) == CHOOSE r \in q : \A x \in q : r <= x

(* Controller._run_idle: `if pickup := ...first()` tests the truth value   *)
(* of the pickup floor, so None and 0 both skip the wake-up                *)
run_idle(s) ==
    IF Unclaimed = {} THEN s
    ELSE LET pickup == rides[Oldest(Unclaimed)].pickup
         IN  IF pickup # 0
             THEN [s EXCEPT !.trip_id = NEW_TRIP, !.status = MOVING,
                            !.direction = resolve(s.floor, pickup)]
             ELSE s

(* mutant: the service step runs on every DOCKED tick *)
docked_serves_Always(s) == TRUE

(* does Controller._run_docked run the service step on this tick *)
docked_serves(s) == trips[s.trip_id].status \in {DRAFT, ENROUTE}

(* Controller._do_dropoffs: the rides it marks ARRIVED *)
do_dropoffs(s) == {r \in RideIds : DropoffMatch(s, r)}

(* mutant: the pickup step claims only the oldest matching ride *)
do_pickups_OnlyOldest(s, flushed) ==
    LET filter == CurrentCount(s, flushed) # 0
        q == {r \in RideIds : PickupMatch(s, r, filter)}
    IN  IF q = {} THEN {} ELSE {Oldest(q)}

(* Controller._do_pickups: the rides it claims; `flushed` are the rides    *)
(* whose ARRIVED status the concurrently started dropoff step has already  *)
(* flushed when the count query runs                                       *)
do_pickups(s, flushed) ==
    LET filter == CurrentCount(s, flushed) # 0
    IN  {r \in RideIds : PickupMatch(s, r, filter)}

(* does this DOCKED tick leave the dock (remainder <= 0) *)
docked_leaves(s, elapsed) == Max(time_on_dock - s.docked_time + elapsed, 0) <= 0

(* Controller._run_docked: the ElevatorState part *)
run_docked(s, elapsed) ==
    IF ~docked_leaves(s, elapsed)
    THEN [s EXCEPT !.docked_time = @ + elapsed]
    ELSE [s EXCEPT !.docked_time = 0, !.status = UNDOCKING]

(* Controller._run_docked: trip.status when the handler returns *)
docked_trip_status(s, elapsed) ==
    IF docked_leaves(s, elapsed) THEN ENROUTE
    ELSE IF docked_serves(s) THEN STOPPED
    ELSE ""

(* ------------------------------ actions -------------------------------- *)
Ticking(e) == e \in fleet /\ pc[e] = "tick"

(* the ride table after the session flushes the changes of loop e *)
FlushRides(e, trip_id) ==
    [r \in RideIds |->
        IF r \in pending[e].arrived THEN [rides[r] EXCEPT !.status = ARRIVED]
        ELSE IF r \in pending[e].claimed
        THEN [rides[r] EXCEPT !.trip_id = trip_id, !.status = ENROUTE]
        ELSE rides[r]]

(* the trip table after the session flushes the changes of loop e, whose   *)
(* in-memory state is s                                                    *)
FlushTrips(e, s) ==
    IF s.trip_id = NEW_TRIP THEN Append(trips, Trip(e))
    ELSE IF pending[e].trip_status # ""
    THEN [trips EXCEPT ![s.trip_id].status = pending[e].trip_status]
    ELSE trips

(* `await self.db.commit()` at the end of an iteration of Controller._run, *)
(* with s the in-memory state the handler left                             *)
CommitTick(e, s) ==
    /\ LET t == IF s.trip_id = NEW_TRIP
                THEN [s EXCEPT !.trip_id = Len(trips) + 1]
                ELSE s
       IN  /\ state' = [state EXCEPT ![e] = t]
           /\ db_state' = [db_state EXCEPT ![e] = t]
           /\ rides' = FlushRides(e, t.trip_id)
           /\ trips' = FlushTrips(e, s)
    /\ pending' = [pending EXCEPT ![e] = NoPending]
    /\ pc' = [pc EXCEPT ![e] = "tick"]
    /\ UNCHANGED <<building, fleet, created>>

(* an iteration whose handler takes no row lock: handler, then commit *)
RunMoving(e, elapsed) ==
    /\ Ticking(e)
    /\ state[e].status = MOVING
    /\ IF moving_raises(state[e], elapsed)
       THEN /\ state' = [state EXCEPT ![e] = run_moving(state[e], elapsed)]
            /\ pc' = [pc EXCEPT ![e] = "crashed"]
            /\ UNCHANGED <<building, fleet, db_state, trips, rides, pending,
                           created>>
       ELSE CommitTick(e, run_moving(state[e], elapsed))

RunDocking(e, elapsed) ==
    /\ Ticking(e)
    /\ state[e].status = DOCKING
    /\ CommitTick(e, run_docking(state[e], elapsed))

(* the DOCKED handler up to the commit: the rows selected FOR UPDATE stay  *)
(* locked, and the changes unflushed, until Commit(e)                      *)
RunDocked(e, elapsed, dropFirst) ==
    /\ Ticking(e)
    /\ state[e].status = DOCKED
    /\ LET s == state[e]
           arrived == IF docked_serves(s) THEN do_dropoffs(s) ELSE {}
           claimed == IF docked_serves(s)
                      THEN do_pickups(s, IF dropFirst THEN arrived ELSE {})
                      ELSE {}
       IN  /\ claimed \cap LockedByOthers(e) = {}
           /\ state' = [state EXCEPT ![e] = run_docked(s, elapsed)]
           /\ pending' = [pending EXCEPT ![e] =
                            [claimed |-> claimed, arrived |-> arrived,
                             trip_status |-> docked_trip_status(s, elapsed)]]
           /\ pc' = [pc EXCEPT ![e] = "commit"]
    /\ UNCHANGED <<building, fleet, db_state, trips, rides, created>>

RunUndocking(e, elapsed) ==
    /\ Ticking(e)
    /\ state[e].status = UNDOCKING
    /\ CommitTick(e, run_undocking(state[e], elapsed))

RunUndocked(e) ==
    /\ Ticking(e)
    /\ state[e].status = UNDOCKED
    /\ CommitTick(e, run_undocked(state[e]))

RunIdle(e) ==
    /\ Ticking(e)
    /\ state[e].status = IDLE
    /\ CommitTick(e, run_idle(state[e]))

Commit(e) ==
    /\ e \in fleet
    /\ pc[e] = "commit"
    /\ CommitTick(e, state[e])

(* mutant: the ride changes are committed by the step that makes them *)
Rollback_RidesKept(e) ==
    [db_state |-> db_state, trips |-> trips,
     rides |-> FlushRides(e, state[e].trip_id)]

(* what an exception leaves in the store: the session is closed without a  *)
(* commit, so the transaction is rolled back                               *)
Rollback(e) == [db_state |-> db_state, trips |-> trips, rides |-> rides]

(* mutant: a DISABLED elevator goes back to IDLE on its next tick *)
run_disabled_Wakes(s) == [s EXCEPT !.status = IDLE]

(* Controller._run_disabled: pass *)
run_disabled(s) == s

RunDisabled(e) ==
    /\ Ticking(e)
    /\ state[e].status = DISABLED
    /\ CommitTick(e, run_disabled(state[e]))

(* the handler Controller._run dispatches to for the status of s *)
Handler(s, elapsed) ==
    CASE s.status = MOVING -> run_moving(s, elapsed)
      [] s.status = DOCKING -> run_docking(s, elapsed)
      [] s.status = DOCKED -> run_docked(s, elapsed)
      [] s.status = UNDOCKING -> run_undocking(s, elapsed)
      [] s.status = UNDOCKED -> run_undocked(s)
      [] s.status = IDLE -> run_idle(s)
      [] OTHER -> s

(* a query or the commit raises (connection loss, deadlock): the exception *)
(* leaves Controller._run and the context manager of Controller.__call__;  *)
(* atCommit tells whether the handler had already changed the in-memory    *)
(* state when the exception was raised                                     *)
Fail(e, elapsed, atCommit) ==
    /\ e \in fleet
    /\ pc[e] \in {"tick", "commit"}
    /\ state' = [state EXCEPT ![e] =
                    IF pc[e] = "tick" /\ atCommit /\ ~moving_raises(@, elapsed)
                    THEN Handler(@, elapsed) ELSE @]
    /\ pc' = [pc EXCEPT ![e] = "crashed"]
    /\ pending' = [pending EXCEPT ![e] = NoPending]
    /\ db_state' = Rollback(e).db_state
    /\ trips' = Rollback(e).trips
    /\ rides' = Rollback(e).rides
    /\ UNCHANGED <<building, fleet, created>>

(* main(): gather re-raises the first exception of a loop, asyncio.run     *)
(* then cancels the loops that are still running                           *)
Cancel(e) ==
    /\ e \in fleet
    /\ pc[e] \in {"tick", "commit"}
    /\ \E o \in fleet : pc[o] = "crashed"
    /\ pc' = [pc EXCEPT ![e] = "cancelled"]
    /\ pending' = [pending EXCEPT ![e] = NoPending]
    /\ UNCHANGED <<building, fleet, state, db_state, trips, rides, created>>

(* api.request_ride: inserts the ride and commits; no validation *)
request_ride(pickup, dropoff) ==
    Ride(pickup, dropoff, Max(-1, Min(1, dropoff - pickup)))

RequestRide(pickup, dropoff) ==
    /\ Len(rides) < MaxRides
    /\ rides' = Append(rides, request_ride(pickup, dropoff))
    /\ UNCHANGED <<building, fleet, state, db_state, trips, pending, pc, created>>

(* Python None passed for an optional argument *)
None == -2

(* RideManager.create_ride: `dropoff or pickup` takes pickup when dropoff  *)
(* is None or 0; a NONE direction raises ValueError                        *)
create_ride(pickup, dropoff, direction) ==
    LET dir == IF direction = None
               THEN resolve(pickup, IF dropoff = None \/ dropoff = 0
                                    THEN pickup ELSE dropoff)
               ELSE direction
    IN  IF dir = NONE
        THEN [raised |-> TRUE, ride |-> <<>>]
        ELSE [raised |-> FALSE, ride |-> <<Ride(pickup, dropoff, dir)>>]

(* one call of RideManager.create_ride, its arguments and outcome recorded *)
CreateRide(pickup, dropoff, direction) ==
    /\ created' = <<[pickup |-> pickup, dropoff |-> dropoff,
                     direction |-> direction,
                     result |-> create_ride(pickup, dropoff, direction)]>>
    /\ UNCHANGED <<building, fleet, state, db_state, trips, rides, pending, pc>>

Floors == 0..(building.floor_count - 1)
Elapsed == 0..MaxElapsed

InitWith(floors, started) ==
    /\ building = [floor_count |-> floors, doors |-> validate_doors(floors)]
    /\ fleet = started
    /\ state = [e \in Elevators |-> ElevatorState]
    /\ db_state = [e \in Elevators |-> ElevatorState]
    /\ trips = <<>>
    /\ rides = <<>>
    /\ pending = [e \in Elevators |-> NoPending]
    /\ pc = [e \in Elevators |-> IF e \in started THEN "tick" ELSE "off"]
    /\ created = <<>>
    /\ doors = Elevator_validate_doors(building, <<>>)
    /\ clock = 1
    /\ timer = [e \in Elevators |-> Timer]

Init == InitWith(FloorCount, Elevators)

Next ==
    \/ \E e \in Elevators : RunIdle(e) /\ UNCHANGED config
    \/ \E e \in Elevators, el \in Elapsed : RunMoving(e, el) /\ UNCHANGED config
    \/ \E e \in Elevators, el \in Elapsed : RunDocking(e, el) /\ UNCHANGED config
    \/ \E e \in Elevators, el \in Elapsed, dropFirst \in BOOLEAN :
            RunDocked(e, el, dropFirst) /\ UNCHANGED config
    \/ \E e \in Elevators, el \in Elapsed : RunUndocking(e, el) /\ UNCHANGED config
    \/ \E e \in Elevators : RunUndocked(e) /\ UNCHANGED config
    \/ \E e \in Elevators : Commit(e) /\ UNCHANGED config
    \/ \E e \in Elevators : Cancel(e) /\ UNCHANGED config
    \/ \E p \in Floors, d \in Floors : RequestRide(p, d) /\ UNCHANGED config

(* every loop of the coordinator, no store failure *)
Spec == Init /\ [][Next]_vars

(* one loop, with store failures *)
FailInit == InitWith(FloorCount, {1})

FailNext ==
    \/ \E e \in Elevators : RunIdle(e) /\ UNCHANGED config
    \/ \E e \in Elevators, el \in Elapsed : RunMoving(e, el) /\ UNCHANGED config
    \/ \E e \in Elevators, el \in Elapsed : RunDocking(e, el) /\ UNCHANGED config
    \/ \E e \in Elevators, el \in Elapsed, dropFirst \in BOOLEAN :
            RunDocked(e, el, dropFirst) /\ UNCHANGED config
    \/ \E e \in Elevators, el \in Elapsed : RunUndocking(e, el) /\ UNCHANGED config
    \/ \E e \in Elevators : RunUndocked(e) /\ UNCHANGED config
    \/ \E e \in Elevators : Commit(e) /\ UNCHANGED config
    \/ \E e \in Elevators, el \in Elapsed, atCommit \in BOOLEAN :
            Fail(e, el, atCommit) /\ UNCHANGED config
    \/ \E p \in Floors, d \in Floors : RequestRide(p, d) /\ UNCHANGED config

FailSpec == FailInit /\ [][FailNext]_vars

(* one loop in the end-to-end building, every tick with positive elapsed   *)
(* time, no store failure; the loop is scheduled again after every sleep   *)
LiveInit == InitWith(E2EFloors, {1})

PositiveElapsed == 1..MaxElapsed

LiveNext ==
    \/ \E e \in Elevators : RunIdle(e) /\ UNCHANGED config
    \/ \E e \in Elevators, el \in PositiveElapsed :
            RunMoving(e, el) /\ UNCHANGED config
    \/ \E e \in Elevators, el \in PositiveElapsed :
            RunDocking(e, el) /\ UNCHANGED config
    \/ \E e \in Elevators, el \in PositiveElapsed, dropFirst \in BOOLEAN :
            RunDocked(e, el, dropFirst) /\ UNCHANGED config
    \/ \E e \in Elevators, el \in PositiveElapsed :
            RunUndocking(e, el) /\ UNCHANGED config
    \/ \E e \in Elevators : RunUndocked(e) /\ UNCHANGED config
    \/ \E e \in Elevators : Commit(e) /\ UNCHANGED config
    \/ \E p \in Floors, d \in Floors : RequestRide(p, d) /\ UNCHANGED config

(* one iteration of the loop of e *)
Iteration(e) ==
    /\ \/ RunIdle(e)
       \/ \E el \in PositiveElapsed : RunMoving(e, el)
       \/ \E el \in PositiveElapsed : RunDocking(e, el)
       \/ \E el \in PositiveElapsed, dropFirst \in BOOLEAN :
            RunDocked(e, el, dropFirst)
       \/ \E el \in PositiveElapsed : RunUndocking(e, el)
       \/ RunUndocked(e)
       \/ Commit(e)
    /\ UNCHANGED config

LiveSpec ==
    /\ LiveInit
    /\ [][LiveNext]_vars
    /\ \A e \in Elevators : WF_vars(Iteration(e))

(* calls of RideManager.create_ride with every combination of arguments *)
CreateInit == InitWith(FloorCount, Elevators)

CreateNext ==
    \E p \in 0..MaxArg, d \in {None} \cup (0..MaxArg),
       dir \in {None, UP, DOWN, NONE} :
            CreateRide(p, d, dir) /\ UNCHANGED config

CreateSpec == CreateInit /\ [][CreateNext]_vars

(* Controller.precision and Controller._tick_delay_map, in units of 0.5 s  *)
precision == 2
tick_delay_map(status) ==
    IF status = IDLE THEN 1 ELSE IF status = DISABLED THEN 10 ELSE 0

(* Controller._tick(delay=True): `delay or precision` *)
tick_delay(status) ==
    IF tick_delay_map(status) # 0 THEN tick_delay_map(status) ELSE precision

(* Controller._tick, entered when the clock shows `before`: the sleep,     *)
(* then now = monotonic_ns(), last = _last_tick or now, _last_tick = now,  *)
(* return (last, now)                                                      *)
tick(t, status, before) ==
    LET now == before + tick_delay(status)
    IN  [t EXCEPT !.last = IF t.last_tick # 0 THEN t.last_tick ELSE now,
                  !.now = now,
                  !.last_tick = now,
                  !.ticks = Min(@ + 1, 2)]

(* the handlers that keep a timer: elapsed = monotonic_ns() - _last_tick,  *)
(* read `lag` after _tick read the clock                                   *)
handler_elapsed(t, lag) == (t.now + lag) - t.last_tick

(* the clock part of one iteration of the loop of e: _tick, then the       *)
(* handler reads the clock `lag` later (timed), or not at all              *)
Tick(e, lag, timed) ==
    LET t == tick(timer[e], state[e].status, clock)
    IN  /\ e \in fleet
        /\ t.now + lag <= MaxClock
        /\ clock' = t.now + lag
        /\ timer' = [timer EXCEPT ![e] =
                        IF timed THEN [t EXCEPT !.elapsed = handler_elapsed(t, lag)]
                        ELSE t]
        /\ UNCHANGED doors

(* one loop, the clock modelled: every handler gets the elapsed time it    *)
(* computes from the clock                                                 *)
TimeInit == InitWith(FloorCount, {1})

TimeNext ==
    \/ \E e \in Elevators : Tick(e, 0, FALSE) /\ RunIdle(e)
    \/ \E e \in Elevators, lag \in Elapsed :
            Tick(e, lag, TRUE) /\ RunMoving(e, timer'[e].elapsed)
    \/ \E e \in Elevators, lag \in Elapsed :
            Tick(e, lag, TRUE) /\ RunDocking(e, timer'[e].elapsed)
    \/ \E e \in Elevators, lag \in Elapsed, dropFirst \in BOOLEAN :
            Tick(e, lag, TRUE) /\ RunDocked(e, timer'[e].elapsed, dropFirst)
    \/ \E e \in Elevators, lag \in Elapsed :
            Tick(e, lag, TRUE) /\ RunUndocking(e, timer'[e].elapsed)
    \/ \E e \in Elevators : Tick(e, 0, FALSE) /\ RunUndocked(e)
    \/ \E e \in Elevators : Commit(e) /\ UNCHANGED config
    \/ \E p \in Floors, d \in Floors : RequestRide(p, d) /\ UNCHANGED config

TimeSpec == TimeInit /\ [][TimeNext]_vars

(* door masks a caller may pass: 0/1 entries, up to MaxMask of them *)
Masks == UNION {[1..n -> {0, 1}] : n \in 0..MaxMask}

(* elevator.doors = value: the validator runs on the assignment *)
AssignDoors(value) ==
    /\ doors' = Elevator_validate_doors(building, value)
    /\ UNCHANGED <<building, fleet, state, db_state, trips, rides, pending, pc,
                   created, clock, timer>>

(* a building of any size with any mask, its elevator created without one *)
DoorsInit ==
    /\ \E n \in 1..MaxFloors, v \in Masks :
            building = [floor_count |-> n, doors |-> Building_validate_doors(n, v)]
    /\ fleet = {}
    /\ state = [e \in Elevators |-> ElevatorState]
    /\ db_state = [e \in Elevators |-> ElevatorState]
    /\ trips = <<>>
    /\ rides = <<>>
    /\ pending = [e \in Elevators |-> NoPending]
    /\ pc = [e \in Elevators |-> "off"]
    /\ created = <<>>
    /\ doors = Elevator_validate_doors(building, <<>>)
    /\ clock = 1
    /\ timer = [e \in Elevators |-> Timer]

DoorsNext == \E value \in Masks : AssignDoors(value)

DoorsSpec == DoorsInit /\ [][DoorsNext]_vars

(* one loop, its elevator configured with any door mask *)
MaskInit ==
    /\ building = [floor_count |-> FloorCount, doors |-> validate_doors(FloorCount)]
    /\ fleet = {1}
    /\ state = [e \in Elevators |-> ElevatorState]
    /\ db_state = [e \in Elevators |-> ElevatorState]
    /\ trips = <<>>
    /\ rides = <<>>
    /\ pending = [e \in Elevators |-> NoPending]
    /\ pc = [e \in Elevators |-> IF e = 1 THEN "tick" ELSE "off"]
    /\ created = <<>>
    /\ \E value \in Masks : doors = Elevator_validate_doors(building, value)
    /\ clock = 1
    /\ timer = [e \in Elevators |-> Timer]

MaskNext ==
    \/ \E e \in Elevators : RunIdle(e) /\ UNCHANGED config
    \/ \E e \in Elevators, el \in Elapsed : RunMoving(e, el) /\ UNCHANGED config
    \/ \E e \in Elevators, el \in Elapsed : RunDocking(e, el) /\ UNCHANGED config
    \/ \E e \in Elevators, el \in Elapsed, dropFirst \in BOOLEAN :
            RunDocked(e, el, dropFirst) /\ UNCHANGED config
    \/ \E e \in Elevators, el \in Elapsed : RunUndocking(e, el) /\ UNCHANGED config
    \/ \E e \in Elevators : RunUndocked(e) /\ UNCHANGED config
    \/ \E e \in Elevators : Commit(e) /\ UNCHANGED config
    \/ \E p \in Floors, d \in Floors : RequestRide(p, d) /\ UNCHANGED config

MaskSpec == MaskInit /\ [][MaskNext]_vars

(* two loops, the clock modelled; the row of elevator 1 was stored         *)
(* DISABLED, at any floor, before its loop started                         *)
DisabledInit ==
    /\ building = [floor_count |-> FloorCount, doors |-> validate_doors(FloorCount)]
    /\ fleet = Elevators
    /\ \E f \in 0..(FloorCount - 1) :
            state = [e \in Elevators |->
                        IF e = 1
                        THEN [ElevatorState EXCEPT !.status = DISABLED, !.floor = f]
                        ELSE ElevatorState]
    /\ db_state = state
    /\ trips = <<>>
    /\ rides = <<>>
    /\ pending = [e \in Elevators |-> NoPending]
    /\ pc = [e \in Elevators |-> "tick"]
    /\ created = <<>>
    /\ doors = Elevator_validate_doors(building, <<>>)
    /\ clock = 1
    /\ timer = [e \in Elevators |-> Timer]

DisabledNext ==
    \/ TimeNext
    \/ \E e \in Elevators : Tick(e, 0, FALSE) /\ RunDisabled(e)

DisabledSpec == DisabledInit /\ [][DisabledNext]_vars

(* ------------------------------ claims --------------------------------- *)

(* C1: a ride's trip_id, once set, never changes, and no two open          *)
(* transactions hold the same ride as claimed: under every interleaving of *)
(* the loops a ride is claimed at most once, by one elevator.              *)
C1_ClaimedOnce ==
    [][/\ \A r \in RideIds :
            rides[r].trip_id # NULL => rides'[r].trip_id = rides[r].trip_id
       /\ \A e1 \in Elevators, e2 \in Elevators :
            e1 # e2 => pending[e1].claimed \cap pending[e2].claimed = {}]_vars

(* two elevators are DOCKED at the pickup floor of a ride, both have run   *)
(* their pickup step, and the ride is on the trip of the first             *)
C1_Witness ==
    \E r \in RideIds, e1 \in Elevators, e2 \in Elevators :
        /\ e1 # e2
        /\ rides[r].trip_id # NULL
        /\ rides[r].trip_id = db_state[e1].trip_id
        /\ db_state[e1].status = DOCKED /\ db_state[e1].floor = rides[r].pickup
        /\ db_state[e2].status = DOCKED /\ db_state[e2].floor = rides[r].pickup
        /\ db_state[e2].trip_id # NULL
        /\ trips[db_state[e2].trip_id].status = STOPPED
        /\ pc[e1] = "tick" /\ pc[e2] = "tick"

(* C2: end to end, in the 5-floor building with one elevator IDLE at floor *)
(* 0 with its door CLOSED: once ride(pickup=0, dropoff=3) is queued, the   *)
(* elevator eventually leaves IDLE, the ride eventually is ENROUTE on the  *)
(* elevator's trip, later ARRIVED while the elevator is DOCKED at floor 3, *)
(* and at last the elevator is IDLE again.                                 *)
C2_Scenario ==
    /\ building.floor_count = 5
    /\ fleet = {1}
    /\ Len(rides) >= 1
    /\ rides[1] = Ride(0, 3, UP)
    /\ db_state[1] = ElevatorState
    /\ pc[1] = "tick"

C2_Left == db_state[1].status # IDLE

C2_Enroute ==
    /\ Len(rides) >= 1
    /\ rides[1].status = ENROUTE
    /\ rides[1].trip_id = db_state[1].trip_id

C2_Arrived ==
    /\ Len(rides) >= 1
    /\ rides[1].status = ARRIVED
    /\ db_state[1].status = DOCKED
    /\ db_state[1].floor = 3

C2_IdleAgain == db_state[1].status = IDLE

C2_EndToEnd ==
    [](C2_Scenario =>
        <>(C2_Left /\ <>(C2_Enroute /\ <>(C2_Arrived /\ <>C2_IdleAgain))))

(* C3: the floor of every elevator's state stays in                        *)
(* [0, building.floor_count - 1], so the door mask is never indexed        *)
(* outside that range.                                                     *)
C3_FloorInRange ==
    \A e \in fleet :
        /\ 0 <= state[e].floor
        /\ state[e].floor <= building.floor_count - 1

(* C4: a MOVING tick that advances the floor takes an elevator at floor 0  *)
(* with direction DOWN to floor 1 with direction UP, and an elevator at    *)
(* the top floor with direction UP to floor floor_count - 2 with direction *)
(* DOWN.                                                                   *)
C4_BoundaryClamp ==
    [][\A e \in fleet, el \in Elapsed :
        (RunMoving(e, el) /\ moving_advances(state[e], el)) =>
            /\ (state[e].floor = 0 /\ state[e].direction = DOWN) =>
                    (state'[e].floor = 1 /\ state'[e].direction = UP)
            /\ (state[e].floor = building.floor_count - 1
                    /\ state[e].direction = UP) =>
                    (/\ state'[e].floor = building.floor_count - 2
                     /\ state'[e].direction = DOWN)]_vars

(* C5: whenever an elevator with an active trip is MOVING, DOCKING, DOCKED *)
(* or UNDOCKING, its direction is UP or DOWN, never NONE.                  *)
C5_DirectionSet ==
    \A e \in fleet :
        (/\ db_state[e].status \in {MOVING, DOCKING, DOCKED, UNDOCKING}
         /\ db_state[e].trip_id # NULL)
            => db_state[e].direction \in {UP, DOWN}

(* C6: create_ride(pickup, dropoff) raises if and only if pickup equals    *)
(* dropoff; otherwise it returns a QUEUED ride with no trip whose          *)
(* direction is UP when dropoff > pickup and DOWN when dropoff < pickup.   *)
C6_CreateRide ==
    \A i \in 1..Len(created) :
        LET c == created[i]
        IN  (c.direction = None /\ c.dropoff # None) =>
                /\ c.result.raised <=> (c.pickup = c.dropoff)
                /\ (c.pickup # c.dropoff) =>
                        /\ Len(c.result.ride) = 1
                        /\ c.result.ride[1].status = QUEUED
                        /\ c.result.ride[1].trip_id = NULL
                        /\ c.result.ride[1].direction =
                                (IF c.dropoff > c.pickup THEN UP ELSE DOWN)

(* C7: every stored ride has pickup # dropoff and direction UP or DOWN.    *)
C7_NoInvalidRide ==
    \A r \in RideIds :
        /\ rides[r].pickup # rides[r].dropoff
        /\ rides[r].direction \in {UP, DOWN}

(* C8: on the DOCKED tick that serves the floor, for a trip that has an    *)
(* ENROUTE ride, every unclaimed QUEUED ride at the floor whose direction  *)
(* is that of an ENROUTE ride of the trip is claimed, and none whose       *)
(* direction is only opposite to the trip's ENROUTE rides is claimed.      *)
C8_EnrouteDirs(e) ==
    {rides[r].direction : r \in {x \in RideIds :
        /\ rides[x].trip_id = state[e].trip_id
        /\ rides[x].status = ENROUTE}}

C9_DropoffOnlyDocked ==
    [][\A r \in RideIds :
        (rides[r].status # ARRIVED /\ rides'[r].status = ARRIVED) =>
            /\ rides[r].status = ENROUTE
            /\ \E e \in fleet :
                /\ trips[rides[r].trip_id].elevator_id = e
                /\ db_state[e].trip_id = rides[r].trip_id
                /\ db_state[e].status = DOCKED
                /\ db_state[e].door_state = OPEN
                /\ db_state[e].floor = rides[r].dropoff]_vars

(* a ride has been dropped off *)
C9_Witness == \E r \in RideIds : rides[r].status = ARRIVED

(* C10: a tick that fails leaves every stored record as it was, and a step *)
(* that changes a stored ride is the commit of one tick, which stores with *)
(* it that tick's elevator state, its trip status and all its claimed and  *)
(* dropped-off rides; so no stored ride is on a trip still stored as DRAFT.*)
C10_TickAtomic ==
    [][/\ \A e \in fleet :
            (pc[e] # "crashed" /\ pc'[e] = "crashed") =>
                (db_state' = db_state /\ trips' = trips /\ rides' = rides)
       /\ (\E r \in RideIds : rides'[r] # rides[r]) =>
            \E e \in fleet :
                /\ pc[e] = "commit" /\ pc'[e] = "tick"
                /\ db_state'[e] = state[e]
                /\ trips'[state[e].trip_id].status = pending[e].trip_status
                /\ \A r \in RideIds :
                    rides'[r] =
                        IF r \in pending[e].arrived
                        THEN [rides[r] EXCEPT !.status = ARRIVED]
                        ELSE IF r \in pending[e].claimed
                        THEN [rides[r] EXCEPT !.status = ENROUTE,
                                              !.trip_id = state[e].trip_id]
                        ELSE rides[r]
       /\ \A r \in RideIds :
            rides'[r].trip_id # NULL => trips'[rides'[r].trip_id].status # DRAFT]_vars

(* the serving DOCKED tick of elevator 1 failed after its handler had run: *)
(* a ride at its floor is still QUEUED and its trip is not STOPPED         *)
C10_Witness ==
    /\ pc[1] = "crashed"
    /\ db_state[1].status = DOCKED
    /\ state[1] # db_state[1]
    /\ trips[db_state[1].trip_id].status \in {DRAFT, ENROUTE}
    /\ \E r \in RideIds :
        /\ rides[r].status = QUEUED
        /\ rides[r].trip_id = NULL
        /\ rides[r].pickup = db_state[1].floor

(* C11: a tick whose query or commit fails transiently does not end the    *)
(* control loop: the loop is at the top of its next iteration, and its     *)
(* elevator state is again the stored one.                                 *)
C11_RetryOnFailure ==
    [][\A e \in fleet, el \in Elapsed, atCommit \in BOOLEAN :
        Fail(e, el, atCommit) =>
            /\ pc'[e] = "tick"
            /\ state'[e] = db_state'[e]]_vars

(* C12: the end of one elevator's control loop by an error never stops     *)
(* another: no loop is cancelled.                                          *)
C12_NoCascade ==
    \A e \in fleet :
        (\E o \in fleet : o # e /\ pc[o] = "crashed") => pc[e] # "cancelled"

(* C13: a tick that takes the elevator's floor out of                      *)
(* [0, floor_count - 1] leaves the elevator DISABLED, in memory and in the *)
(* store, and the stored floor stays in range.                             *)
C13_DisabledOnViolation ==
    [][\A e \in fleet :
        (state[e].floor \in Floors /\ state'[e].floor \notin Floors) =>
            /\ state'[e].status = DISABLED
            /\ db_state'[e].status = DISABLED
            /\ db_state'[e].floor \in Floors]_vars

(* C14: after a mask is assigned to an elevator, its doors have one entry  *)
(* per floor of the building, and entry i is 1 exactly when the building's *)
(* entry i is 1 and the requested mask (an empty one standing for all of   *)
(* the building's doors) has a 1 at i.                                     *)
C14_DoorMaskIntersection ==
    [][\A value \in Masks :
        AssignDoors(value) =>
            /\ Len(doors') = building.floor_count
            /\ \A i \in 1..building.floor_count :
                doors'[i] = 1 <=>
                    /\ building.doors[i] = 1
                    /\ \/ value = <<>>
                       \/ i <= Len(value) /\ value[i] = 1]_vars

(* C15: on every tick after the first, _tick returns (the previous tick's  *)
(* timestamp, now) and records now, and the elapsed time the handler adds  *)
(* to floor_time, door_time or docked_time is now minus the previous       *)
(* tick's timestamp, the sleep between the two ticks included.             *)
C15_Timed(e) ==
    /\ timer'[e] # timer[e]
    /\ timer[e].ticks >= 1
    /\ state[e].status \in {MOVING, DOCKING, DOCKED, UNDOCKING}

C15_ElapsedAccounting ==
    [][\A e \in fleet :
        C15_Timed(e) =>
            /\ timer'[e].last = timer[e].last_tick
            /\ timer'[e].now = clock + tick_delay(state[e].status)
            /\ timer'[e].last_tick = timer'[e].now
            /\ timer'[e].elapsed = timer'[e].now - timer'[e].last
            /\ state'[e].floor_time \in
                    {0, state[e].floor_time + (timer'[e].now - timer'[e].last)}
            /\ state'[e].door_time \in
                    {0, state[e].door_time + (timer'[e].now - timer'[e].last)}
            /\ state'[e].docked_time \in
                    {0, state[e].docked_time + (timer'[e].now - timer'[e].last)}]_vars

(* C16: a MOVING tick that advances the elevator to floor f leaves it      *)
(* DOCKING exactly when f is accessible in the elevator's door mask and    *)
(* either an unclaimed QUEUED ride has its pickup at f (with the           *)
(* elevator's direction, when the trip has ENROUTE or QUEUED rides) or an  *)
(* ENROUTE ride of the trip has its dropoff at f; otherwise it stays       *)
(* MOVING.                                                                 *)
C16_Accessible(f) == (f + 1) \in DOMAIN doors /\ doors[f + 1] = 1

C16_TripRides(e) ==
    {r \in RideIds : /\ rides[r].trip_id = state[e].trip_id
                     /\ rides[r].status \in {ENROUTE, QUEUED}}

C16_Pickup(e, f, dir) ==
    \E r \in RideIds :
        /\ rides[r].trip_id = NULL
        /\ rides[r].status = QUEUED
        /\ rides[r].pickup = f
        /\ (C16_TripRides(e) # {} => rides[r].direction = dir)

C16_Dropoff(e, f) ==
    \E r \in RideIds :
        /\ rides[r].trip_id = state[e].trip_id
        /\ rides[r].status = ENROUTE
        /\ rides[r].dropoff = f

C16_DockEligibility ==
    [][\A e \in fleet, el \in Elapsed :
        (RunMoving(e, el) /\ moving_advances(state[e], el)) =>
            /\ state'[e].status \in {DOCKING, MOVING}
            /\ state'[e].status = DOCKING <=>
                /\ C16_Accessible(state'[e].floor)
                /\ \/ C16_Pickup(e, state'[e].floor, state'[e].direction)
                   \/ C16_Dropoff(e, state'[e].floor)]_vars

(* the elevator, woken for a ride whose pickup floor 1 has no door, has    *)
(* passed floor 1 without docking; and an elevator with such a mask docks  *)
(* elsewhere                                                               *)
C16_Witness ==
    /\ doors = <<1, 0, 1>>
    /\ Len(rides) = 2
    /\ rides[1].pickup = 1 /\ rides[1].status = QUEUED
    /\ rides[2].pickup = 2 /\ rides[2].status = QUEUED
    /\ db_state[1].status = DOCKING
    /\ db_state[1].floor = 2

(* C17: a tick of an IDLE elevator while an unclaimed QUEUED ride exists,  *)
(* at whatever pickup floor, creates a DRAFT trip owned by the elevator,   *)
(* attaches it, and sets status MOVING and direction resolve(floor, pickup *)
(* of the oldest such ride); with no such ride the state is unchanged.     *)
C17_Waiting == {r \in RideIds : rides[r].trip_id = NULL /\ rides[r].status = QUEUED}

C17_IdleWakeUp ==
    [][\A e \in fleet :
        RunIdle(e) =>
            IF C17_Waiting = {} THEN state'[e] = state[e]
            ELSE \E r \in C17_Waiting :
                    /\ \A x \in C17_Waiting : r <= x
                    /\ state'[e].status = MOVING
                    /\ state'[e].direction = resolve(state[e].floor, rides[r].pickup)
                    /\ state'[e].trip_id = Len(trips) + 1
                    /\ Len(trips') = Len(trips) + 1
                    /\ trips'[Len(trips')] = [elevator_id |-> e, status |-> DRAFT]]_vars

(* C18: an UNDOCKED tick makes the elevator IDLE when its trip has no      *)
(* ENROUTE ride; otherwise it makes it MOVING, reverses the direction      *)
(* exactly when no ENROUTE ride of the trip has the elevator's direction,  *)
(* and leaves the elevator with the direction of some ENROUTE ride of its  *)
(* trip.  No elevator is stored IDLE while its trip has an ENROUTE ride.   *)
C18_Dirs(e) ==
    {rides[r].direction : r \in {x \in RideIds :
        /\ rides[x].trip_id = state[e].trip_id
        /\ rides[x].status = ENROUTE}}

C18_UndockedDecision ==
    [][/\ \A e \in fleet :
            RunUndocked(e) =>
                IF C18_Dirs(e) = {} THEN state'[e].status = IDLE
                ELSE /\ state'[e].status = MOVING
                     /\ state'[e].direction =
                            (IF state[e].direction \in C18_Dirs(e)
                             THEN state[e].direction
                             ELSE 0 - state[e].direction)
                     /\ state'[e].direction \in C18_Dirs(e)
       /\ \A e \in fleet :
            db_state'[e].status = IDLE =>
                ~ \E r \in 1..Len(rides') :
                    /\ rides'[r].trip_id # NULL
                    /\ rides'[r].trip_id = db_state'[e].trip_id
                    /\ rides'[r].status = ENROUTE]_vars

(* C19: the pickup step of an elevator docked at floor f claims exactly    *)
(* the unclaimed QUEUED rides with pickup f, only those with the           *)
(* elevator's direction when the step finds ENROUTE or QUEUED rides on the *)
(* trip (counted before or after the dropoffs of the same tick), however   *)
(* many they are; the commit of the tick sets trip_id and status ENROUTE   *)
(* on all of them and changes no other ride but the dropped-off ones.      *)
C19_OnTrip(e, view) ==
    {r \in RideIds : /\ rides[r].trip_id = state[e].trip_id
                     /\ rides[r].status \in {ENROUTE, QUEUED}
                     /\ r \notin view}

C19_Expected(e, view) ==
    {r \in RideIds :
        /\ rides[r].trip_id = NULL
        /\ rides[r].status = QUEUED
        /\ rides[r].pickup = state[e].floor
        /\ (C19_OnTrip(e, view) # {} => rides[r].direction = state[e].direction)}

C19_PickupStep ==
    [][\A e \in fleet :
        /\ (/\ pc[e] = "tick" /\ pc'[e] = "commit"
            /\ state[e].status = DOCKED
            /\ trips[state[e].trip_id].status \in {DRAFT, ENROUTE}) =>
                \E view \in {{}, pending'[e].arrived} :
                    pending'[e].claimed = C19_Expected(e, view)
        /\ (pc[e] = "commit" /\ pc'[e] = "tick") =>
                \A r \in RideIds :
                    /\ r \in pending[e].claimed =>
                        rides'[r] = [rides[r] EXCEPT !.trip_id = state[e].trip_id,
                                                     !.status = ENROUTE]
                    /\ r \notin (pending[e].claimed \cup pending[e].arrived) =>
                        rides'[r] = rides[r]]_vars

(* the pickup step of a docked elevator has claimed two rides at once, its *)
(* tick not yet committed                                                  *)
C19_Witness ==
    \E e \in fleet :
        /\ pc[e] = "commit"
        /\ state[e].status \in {DOCKED, UNDOCKING}
        /\ Cardinality(pending[e].claimed) = 2
        /\ \A r \in pending[e].claimed :
            /\ rides[r].status = QUEUED
            /\ rides[r].pickup = state[e].floor

(* C20: a MOVING tick with floor_time >= speed_per_floor moves the floor   *)
(* by one step and resets floor_time to 0; a MOVING tick with floor_time   *)
(* below speed_per_floor leaves floor and direction unchanged and adds     *)
(* exactly the tick's elapsed time to floor_time.                          *)
C20_MovingThreshold ==
    [][\A e \in fleet, el \in Elapsed :
        RunMoving(e, el) =>
            IF state[e].floor_time >= speed_per_floor
            THEN /\ state'[e].floor \in {state[e].floor + 1, state[e].floor - 1}
                 /\ state'[e].floor_time = 0
            ELSE /\ state'[e].floor = state[e].floor
                 /\ state'[e].direction = state[e].direction
                 /\ state'[e].floor_time = state[e].floor_time + el]_vars

(* C21: the dropoff and pickup steps run on the first DOCKED tick of a     *)
(* visit, which sets the trip STOPPED; a DOCKED tick that finds the trip   *)
(* STOPPED claims and drops off nothing; the tick that leaves DOCKED sets  *)
(* status UNDOCKING, docked_time 0 and trip status ENROUTE; and in every   *)
(* committed state the active trip is STOPPED if and only if the elevator  *)
(* is DOCKED.                                                              *)
C21_DockedTick(e) ==
    /\ pc[e] = "tick" /\ pc'[e] = "commit"
    /\ state[e].status = DOCKED

C21_Service(e) ==
    /\ (C21_DockedTick(e) /\ trips[state[e].trip_id].status = STOPPED) =>
            /\ pending'[e].claimed = {}
            /\ pending'[e].arrived = {}
    /\ (C21_DockedTick(e) /\ trips[state[e].trip_id].status # STOPPED) =>
            /\ pending'[e].trip_status \in {STOPPED, ENROUTE}
            /\ pending'[e].arrived =
                    {r \in RideIds : /\ rides[r].trip_id = state[e].trip_id
                                     /\ rides[r].status = ENROUTE
                                     /\ rides[r].dropoff = state[e].floor}
    /\ (C21_DockedTick(e) /\ state'[e].status # DOCKED) =>
            /\ state'[e].status = UNDOCKING
            /\ state'[e].docked_time = 0
            /\ pending'[e].trip_status = ENROUTE
    /\ (C21_DockedTick(e) /\ state'[e].status = DOCKED) =>
            pending'[e].trip_status \in {STOPPED, ""}

C21_OneServicePerDock ==
    [][\A e \in fleet :
        /\ C21_Service(e)
        /\ db_state'[e].trip_id # NULL =>
            (trips'[db_state'[e].trip_id].status = STOPPED
                <=> db_state'[e].status = DOCKED)]_vars

(* C21 as amended: the same, but a committed DOCKED state has its trip     *)
(* STOPPED only once a DOCKED tick of the visit has been committed; before *)
(* it the trip is still DRAFT or ENROUTE and docked_time is 0.  A STOPPED  *)
(* active trip always means a DOCKED elevator.                             *)
C21_Amended ==
    [][\A e \in fleet :
        /\ C21_Service(e)
        /\ db_state'[e].trip_id # NULL =>
            /\ trips'[db_state'[e].trip_id].status = STOPPED
                    => db_state'[e].status = DOCKED
            /\ (/\ db_state'[e].status = DOCKED
                /\ trips'[db_state'[e].trip_id].status # STOPPED) =>
                    /\ trips'[db_state'[e].trip_id].status \in {DRAFT, ENROUTE}
                    /\ db_state'[e].docked_time = 0]_vars

(* a DOCKED tick later than the first of its visit has run and is about to *)
(* commit: it claimed nothing although an unclaimed ride in the elevator's *)
(* direction waits at the floor                                            *)
C21_Witness ==
    \E e \in fleet :
        /\ pc[e] = "commit"
        /\ db_state[e].status = DOCKED
        /\ db_state[e].docked_time > 0
        /\ trips[db_state[e].trip_id].status = STOPPED
        /\ pending[e].claimed = {}
        /\ \E r \in RideIds :
            /\ rides[r].trip_id = NULL
            /\ rides[r].status = QUEUED
            /\ rides[r].pickup = db_state[e].floor
            /\ rides[r].direction = db_state[e].direction

(* C22: a DOCKING tick with the door CLOSED only sets it OPENING; the      *)
(* status becomes DOCKED exactly on the DOCKING tick that sets the door    *)
(* OPEN, which resets door_time to 0.  Symmetrically an UNDOCKING tick     *)
(* with the door OPEN only sets it CLOSING, and the status becomes         *)
(* UNDOCKED exactly on the tick that sets the door CLOSED and resets       *)
(* door_time.  An elevator that keeps ticking with positive elapsed time   *)
(* gets from DOCKING to DOCKED and from UNDOCKING to UNDOCKED.             *)
C22_Protocol(old, new, via, from, to, done) ==
    /\ old.door_state = from => new = [old EXCEPT !.door_state = via]
    /\ new.status = done <=> (old.door_state # to /\ new.door_state = to)
    /\ new.status = done => (old.door_state = via /\ new.door_time = 0)
    /\ new.status \in {old.status, done}

C22_DoorProtocol ==
    /\ [][\A e \in fleet :
            /\ (\E el \in Elapsed : RunDocking(e, el)) =>
                    C22_Protocol(state[e], state'[e], OPENING, CLOSED, OPEN, DOCKED)
            /\ (\E el \in Elapsed : RunUndocking(e, el)) =>
                    C22_Protocol(state[e], state'[e], CLOSING, OPEN, CLOSED,
                                 UNDOCKED)]_vars
    /\ \A e \in Elevators :
            /\ [](db_state[e].status = DOCKING => <>(db_state[e].status = DOCKED))
            /\ [](db_state[e].status = UNDOCKING =>
                    <>(db_state[e].status = UNDOCKED))

(* the elevator has docked and undocked: it is stored UNDOCKED with the    *)
(* door CLOSED after a visit in which it picked a ride up                  *)
C22_Witness ==
    /\ db_state[1].status = UNDOCKED
    /\ db_state[1].door_state = CLOSED
    /\ db_state[1].door_time = 0
    /\ \E r \in RideIds : rides[r].status = ENROUTE

(* C23: a tick of a DISABLED elevator leaves its ElevatorState, every trip *)
(* and every ride unchanged; no step takes an elevator out of DISABLED;    *)
(* and no ride is claimed by, or dropped off from, a trip of an elevator   *)
(* that is DISABLED.                                                       *)
C23_DisabledSink ==
    [][\A e \in fleet :
        /\ RunDisabled(e) =>
            /\ state'[e] = state[e]
            /\ db_state' = db_state
            /\ trips' = trips
            /\ rides' = rides
        /\ state[e].status = DISABLED => state'[e].status = DISABLED
        /\ db_state[e].status = DISABLED =>
            /\ db_state'[e] = db_state[e]
            /\ pending'[e] = NoPending
            /\ \A r \in RideIds :
                rides'[r] # rides[r] =>
                    trips'[rides'[r].trip_id].elevator_id # e]_vars

(* the DISABLED elevator has ticked twice while a ride waits, unclaimed,   *)
(* at its floor                                                            *)
C23_Witness ==
    /\ db_state[1].status = DISABLED
    /\ timer[1].ticks >= 2
    /\ \E r \in RideIds :
        /\ rides[r].trip_id = NULL
        /\ rides[r].status = QUEUED
        /\ rides[r].pickup = db_state[1].floor
        /\ rides[r].pickup # rides[r].dropoff

(* C24: a ride's status only moves QUEUED -> ENROUTE -> ARRIVED; its       *)
(* trip_id is NULL exactly while it is QUEUED and never changes once set;  *)
(* it becomes ENROUTE only by the commit of a tick of an elevator stored   *)
(* DOCKED at the ride's pickup floor, on that elevator's trip; and it      *)
(* becomes ARRIVED only by a commit of the elevator that owns its trip.    *)
C24_Committing(e) == pc[e] = "commit" /\ pc'[e] = "tick"

C24_RideLifecycle ==
    [][\A r \in RideIds :
        /\ <<rides[r].status, rides'[r].status>> \in
                {<<QUEUED, QUEUED>>, <<QUEUED, ENROUTE>>, <<ENROUTE, ENROUTE>>,
                 <<ENROUTE, ARRIVED>>, <<ARRIVED, ARRIVED>>}
        /\ rides[r].trip_id = NULL <=> rides[r].status = QUEUED
        /\ rides'[r].trip_id = NULL <=> rides'[r].status = QUEUED
        /\ rides[r].trip_id # NULL => rides'[r].trip_id = rides[r].trip_id
        /\ (rides[r].status = QUEUED /\ rides'[r].status = ENROUTE) =>
                \E e \in fleet :
                    /\ C24_Committing(e)
                    /\ db_state[e].status = DOCKED
                    /\ db_state[e].floor = rides[r].pickup
                    /\ rides'[r].trip_id = db_state[e].trip_id
                    /\ trips[db_state[e].trip_id].elevator_id = e
        /\ (rides[r].status = ENROUTE /\ rides'[r].status = ARRIVED) =>
                \E e \in fleet :
                    /\ C24_Committing(e)
                    /\ trips[rides[r].trip_id].elevator_id = e]_vars

(* one ride has gone all the way to ARRIVED while another is ENROUTE *)
C24_Witness ==
    \E r1 \in RideIds, r2 \in RideIds :
        /\ rides[r1].status = ARRIVED
        /\ rides[r2].status = ENROUTE
        /\ rides[r1].pickup # rides[r1].dropoff
        /\ rides[r2].pickup # rides[r2].dropoff

(* C25: in every reachable state the door is CLOSED whenever the status is *)
(* IDLE, MOVING or UNDOCKED and OPEN whenever it is DOCKED; the floor      *)
(* changes only in ticks that start and end with the door CLOSED; and      *)
(* DOCKING is entered only with the door CLOSED.                           *)
C25_Safe(s) ==
    /\ s.status \in {IDLE, MOVING, UNDOCKED} => s.door_state = CLOSED
    /\ s.status = DOCKED => s.door_state = OPEN

C25_DoorSafety ==
    [][\A e \in fleet :
        /\ C25_Safe(state[e]) /\ C25_Safe(state'[e])
        /\ C25_Safe(db_state[e]) /\ C25_Safe(db_state'[e])
        /\ state'[e].floor # state[e].floor =>
            (state[e].door_state = CLOSED /\ state'[e].door_state = CLOSED)
        /\ (state[e].status # DOCKING /\ state'[e].status = DOCKING) =>
            state'[e].door_state = CLOSED]_vars

(* an elevator is moving between floors, door closed, with a ride aboard   *)
(* that it picked up at a dock                                             *)
C25_Witness ==
    \E e \in fleet, r \in RideIds :
        /\ db_state[e].status = MOVING
        /\ db_state[e].door_state = CLOSED
        /\ rides[r].status = ENROUTE
        /\ rides[r].trip_id = db_state[e].trip_id
        /\ db_state[e].floor # rides[r].pickup

(* C26: with every floor accessible and only rides with distinct pickup    *)
(* and dropoff floors, an elevator whose loop keeps ticking with positive  *)
(* elapsed time delivers every ride it has taken: a ride that is ENROUTE   *)
(* eventually is ARRIVED.                                                  *)
C26_ValidRides ==
    /\ Len(rides) = MaxRides
    /\ \A r \in 1..MaxRides :
        /\ rides[r].pickup # rides[r].dropoff
        /\ rides[r].pickup \in Floors
        /\ rides[r].dropoff \in Floors

C26_Enroute(r) == C26_ValidRides /\ rides[r].status = ENROUTE

C26_Arrived(r) == Len(rides) >= r /\ rides[r].status = ARRIVED

C26_Delivered ==
    \A r \in 1..MaxRides : [](C26_Enroute(r) => <>C26_Arrived(r))

(* C27: when two elevators have woken for the same single ride and one of  *)
(* them has claimed it, the other one, whose trip never got a ride, does   *)
(* not fail: its loop does not end with an error.                          *)
C27_Loser(e) ==
    /\ Len(rides) = 1
    /\ rides[1].trip_id # NULL
    /\ trips[rides[1].trip_id].elevator_id # e
    /\ db_state[e].trip_id # NULL
    /\ trips[db_state[e].trip_id].elevator_id = e
    /\ trips[db_state[e].trip_id].status = DRAFT

C27_LoserRecovers ==
    \A e \in fleet : C27_Loser(e) => pc[e] # "crashed"

(* C28: the rides a serving DOCKED tick drops off and the rides it claims  *)
(* are determined by the stored state at the start of the tick: they are   *)
(* the same whether the pickup step counts the trip's rides before or      *)
(* after the dropoff step of the same tick has marked its rides ARRIVED.   *)
C28_Dropped(e) ==
    {r \in RideIds : /\ rides[r].trip_id = state[e].trip_id
                     /\ rides[r].status = ENROUTE
                     /\ rides[r].dropoff = state[e].floor}

C28_Claimed(e, seen) ==
    LET onTrip == {r \in RideIds : /\ rides[r].trip_id = state[e].trip_id
                                   /\ rides[r].status \in {ENROUTE, QUEUED}
                                   /\ r \notin seen}
    IN  {r \in RideIds :
            /\ rides[r].trip_id = NULL
            /\ rides[r].status = QUEUED
            /\ rides[r].pickup = state[e].floor
            /\ (onTrip # {} => rides[r].direction = state[e].direction)}

====
